---- MODULE Spec2Model ----
(***************************************************************************)
(* Model of signer/local/local.go: the local signing engine (Signer), its  *)
(* constructor NewSigner, the Sign handler with its private sign step and  *)
(* SetPolicy.  Sign is callable from several goroutines; the engine has no *)
(* lock, so a call is modelled as a sequence of steps, one per access to   *)
(* the shared fields s.policy and s.ca, and calls of different goroutines  *)
(* interleave at those steps.  A nil dereference is the Go runtime panic.  *)
(***************************************************************************)
EXTENDS Naturals, Sequences, FiniteSets, TLC

\* ------------------------------------------------------------------ bounds
MaxCalls == 2          \* Sign calls made over the engine's life
Callers == {"g1", "g2"}                \* goroutines calling the engine
ReqPathLens == {0, 3}                  \* path lengths a CSR or the filler asks for
ProfileNames == {"", "a", "zz"}        \* profile names a request may carry

\* --------------------------------------------------------------- constants
\* signer.MaxPathLen: the path length given to a self-signed root.
MaxPathLen == 2

\* ------------------------------------------------------------ error values
NoErr == "nil"
InvalidPolicy == "PolicyError/InvalidPolicy"
InvalidRequest == "PolicyError/InvalidRequest"
DecodeFailed == "CertificateError/DecodeFailed"
BadRequest == "CertificateError/BadRequest"
UnknownErr == "CertificateError/Unknown"
ParseFailed == "CertificateError/ParseFailed"
CSRParseErr == "ParseCertificateRequest error"
FillErr == "FillTemplate error"
Panicked == "panic: nil pointer dereference"
Pending == "pending"

\* ------------------------------------------------------- profiles, policies
\* *config.SigningProfile; NilProfile is the nil pointer.
NilProfile == [tag |-> "nil", UseSerialSeq |-> FALSE]
ProfA == [tag |-> "a", UseSerialSeq |-> TRUE]
ProfD == [tag |-> "d", UseSerialSeq |-> FALSE]

\* config.DefaultConfig(): the built-in default profile.
DefaultConfig == [tag |-> "builtin", UseSerialSeq |-> FALSE]

\* *config.Signing; NilPolicy is the nil pointer.  Profiles is the Go map: a
\* name absent from the map reads as the nil profile.
NoProfiles == [n \in ProfileNames |-> NilProfile]
NilPolicy == [nil |-> TRUE, Profiles |-> NoProfiles, Default |-> NilProfile]
\* PolA carries an entry under the empty name as well: the map key is any string.
PolA ==
  [nil |-> FALSE, Profiles |-> [NoProfiles EXCEPT !["a"] = ProfA, ![""] = ProfA],
   Default |-> ProfD]
PolNoDefault == [nil |-> FALSE, Profiles |-> [NoProfiles EXCEPT !["a"] = ProfA], Default |-> NilProfile]
PolicyArgs == {NilPolicy, PolA, PolNoDefault}

\* The policy NewSigner substitutes for an absent one.
SubstitutePolicy == [nil |-> FALSE, Profiles |-> NoProfiles, Default |-> DefaultConfig]

\* (*config.Signing).Valid: a policy is acceptable when it exists and carries
\* its mandatory default profile.
Valid(p) == ~p.nil /\ p.Default /= NilProfile

\* ------------------------------------------------------------ certificates
\* *x509.Certificate values the field s.ca can hold: the nil pointer, the
\* certificate given to NewSigner, a pointer to the template object of Sign
\* call i, or a certificate parsed from DER bytes.
NoCert == [kind |-> "nil"]
SuppliedCert == [kind |-> "supplied"]
TemplatePtr(i) == [kind |-> "template", id |-> i]

\* ----------------------------------------------------------------- subjects
\* pkix.Name: the six identity fields the reconciler handles.
NameOf(cn, c, st, l, o, ou) ==
  [CommonName |-> cn, Country |-> c, Province |-> st, Locality |-> l,
   Organization |-> o, OrganizationalUnit |-> ou]

\* *signer.Whitelist and *signer.Subject; NilWhitelist and NilSubject are the
\* nil pointers.  Names is the list of override identities.
NilWhitelist ==
  [nil |-> TRUE, CN |-> FALSE, C |-> FALSE, ST |-> FALSE, L |-> FALSE, O |-> FALSE,
   OU |-> FALSE]
NilSubject == [nil |-> TRUE, Whitelist |-> NilWhitelist, Names |-> <<>>]

\* A replacement that takes the new contents whatever the slice holds.
replaceSliceAlways(replaced, newContents) == newContents

\* replaceSliceIfEmpty
replaceSliceIfEmpty(replaced, newContents) ==
  IF Len(replaced) = 0 THEN newContents ELSE replaced

\* whitelistString, whitelistStringSlice
whitelistString(keep, field) == IF ~keep THEN "" ELSE field
whitelistStringSlice(keep, field) == IF ~keep THEN <<>> ELSE field

\* whitelistRequest that keeps every field.
whitelistRequestKeepsAll(s, name) == name

\* whitelistRequest
whitelistRequest(s, name) ==
  IF s.nil \/ s.Whitelist.nil
  THEN name
  ELSE NameOf(whitelistString(s.Whitelist.CN, name.CommonName),
              whitelistStringSlice(s.Whitelist.C, name.Country),
              whitelistStringSlice(s.Whitelist.ST, name.Province),
              whitelistStringSlice(s.Whitelist.L, name.Locality),
              whitelistStringSlice(s.Whitelist.O, name.Organization),
              whitelistStringSlice(s.Whitelist.OU, name.OrganizationalUnit))

\* (*signer.Subject).Name: the override identity consulted, the first of the
\* list.
SubjectName(s) == s.Names[1]

\* PopulateSubjectFromCSR
PopulateSubjectFromCSR(s, req) ==
  IF s.nil
  THEN req
  ELSE LET wreq == whitelistRequest(s, req)
       IN  IF Len(s.Names) = 0
           THEN wreq
           ELSE LET name == SubjectName(s)
                IN  NameOf(IF name.CommonName = "" THEN wreq.CommonName
                                                   ELSE name.CommonName,
                           replaceSliceIfEmpty(name.Country, wreq.Country),
                           replaceSliceIfEmpty(name.Province, wreq.Province),
                           replaceSliceIfEmpty(name.Locality, wreq.Locality),
                           replaceSliceIfEmpty(name.Organization, wreq.Organization),
                           replaceSliceIfEmpty(name.OrganizationalUnit,
                                               wreq.OrganizationalUnit))

\* ---------------------------------------------------------------- requests
\* req.Request, the bytes handed to pem.Decode: no PEM armor at all, a PEM
\* block of some type whose body is a well-formed CSR or junk.
CsrSubject == NameOf("req-cn", <<"US">>, <<>>, <<>>, <<"req-org">>, <<>>)
CSRs ==
  { [IsCA |-> FALSE, MaxPathLen |-> 0, DNSNames |-> <<"csr.example.com">>,
     Subject |-> CsrSubject],
    [IsCA |-> TRUE, MaxPathLen |-> 3, DNSNames |-> <<"csr.example.com">>,
     Subject |-> CsrSubject] }
Junk ==
  [IsCA |-> FALSE, MaxPathLen |-> 0, DNSNames |-> <<"junk">>,
   Subject |-> NameOf("", <<>>, <<>>, <<>>, <<>>, <<>>)]
RequestBytes ==
  { [armor |-> FALSE, Type |-> "", Bytes |-> Junk],
    [armor |-> TRUE, Type |-> "CERTIFICATE", Bytes |-> Junk],
    [armor |-> TRUE, Type |-> "CERTIFICATE REQUEST", Bytes |-> Junk] }
  \cup { [armor |-> TRUE, Type |-> "CERTIFICATE REQUEST", Bytes |-> c] : c \in CSRs }

\* req.Hosts: a nil slice, or a list of host strings.
NilHosts == [nil |-> TRUE, list |-> <<>>]

\* The optional fields of a signer.SignRequest, req.SerialSeq, req.Hosts and
\* req.Subject: a request that carries none of them, and one that carries a
\* serial-sequence hint, a host list and a subject whose whitelist drops the
\* CSR's common name and whose override identity names the organization.
OptionalFields ==
  { [SerialSeq |-> "", Hosts |-> NilHosts, Subject |-> NilSubject],
    [SerialSeq |-> "seq7",
     Hosts |-> [nil |-> FALSE, list |-> <<"10.0.0.1", "api.example.com">>],
     Subject |->
       [nil |-> FALSE,
        Whitelist |-> [nil |-> FALSE, CN |-> FALSE, C |-> TRUE, ST |-> TRUE, L |-> TRUE,
                       O |-> TRUE, OU |-> TRUE],
        Names |-> << NameOf("", <<>>, <<>>, <<>>, <<"Policy">>, <<>>) >>]] }
Hints == { f.SerialSeq : f \in OptionalFields }

\* pem.Decode: the first PEM block of the bytes, or nil when there is none.
NilBlock == [nil |-> TRUE, Type |-> "", Bytes |-> Junk]
PemDecode(b) ==
  IF b.armor THEN [nil |-> FALSE, Type |-> b.Type, Bytes |-> b.Bytes] ELSE NilBlock

\* pem.EncodeToMemory of a block.
PemEncode(type, bytes) == [armor |-> TRUE, Type |-> type, Bytes |-> bytes]
NoBytes == [armor |-> FALSE, Type |-> "", Bytes |-> <<>>]

\* net.ParseIP: the IP address a host string spells, or nil when it spells
\* none.  Several spellings give one address.
NilIP == [nil |-> TRUE, addr |-> ""]
ParseIP(h) ==
  IF h = "10.0.0.1" THEN [nil |-> FALSE, addr |-> "v4:0a000001"]
  ELSE IF h \in {"::1", "0:0:0:0:0:0:0:1"} THEN [nil |-> FALSE, addr |-> "v6:::1"]
  ELSE NilIP

\* ---------------------------------------------------------------- templates
NoTemplate ==
  [IsCA |-> FALSE, MaxPathLen |-> 0, DNSNames |-> <<>>, IPAddresses |-> <<>>,
   SerialNumber |-> <<>>, Subject |-> NameOf("", <<>>, <<>>, <<>>, <<>>, <<>>)]

\* signer.ParseCertificateRequest on a well-formed CSR.
ParseCertificateRequest(csr) ==
  [IsCA |-> csr.IsCA, MaxPathLen |-> csr.MaxPathLen, DNSNames |-> csr.DNSNames,
   IPAddresses |-> <<>>, SerialNumber |-> <<>>, Subject |-> csr.Subject]

\* OverrideHosts, lines 191-197: the loop over the hosts from index i on.
RECURSIVE AppendHosts(_, _, _)
AppendHosts(t, list, i) ==
  IF i > Len(list) THEN t
  ELSE LET ip == ParseIP(list[i])
       IN  IF ~ip.nil
           THEN AppendHosts([t EXCEPT !.IPAddresses = Append(@, ip)], list, i + 1)
           ELSE AppendHosts([t EXCEPT !.DNSNames = Append(@, list[i])], list, i + 1)

\* OverrideHosts with the reset of lines 186-189 left out.
OverrideHostsNoReset(t, hosts) == AppendHosts(t, hosts.list, 1)

\* OverrideHosts
OverrideHosts(t, hosts) ==
  AppendHosts(IF hosts.nil THEN t ELSE [t EXCEPT !.IPAddresses = <<>>, !.DNSNames = <<>>],
              hosts.list, 1)

\* signer.FillTemplate, on success, called with the policy's default profile,
\* the resolved profile and the serial sequence: the serial number is the
\* serial sequence followed by a fresh number and, for a CA template, the
\* profile's extensions may replace the path length the CSR asked for.
FillTemplate(t, default, profile, serialSeq, fresh, pathLen) ==
  [t EXCEPT !.SerialNumber = <<serialSeq, fresh>>,
            !.MaxPathLen = IF t.IsCA THEN pathLen ELSE @]

\* sign, lines 92 and 95: the template of a root bootstrap.
RootTemplate(t) == [t EXCEPT !.DNSNames = <<>>, !.MaxPathLen = MaxPathLen]

\* The guard of lines 96-99 without line 98: the DNS names are kept.
IssuedTemplateKeepsDNS(t) ==
  IF t.IsCA THEN [t EXCEPT !.MaxPathLen = 1] ELSE t

\* The guard of lines 96-99 without the test of template.IsCA.
IssuedTemplateAnyRequest(t) == [t EXCEPT !.MaxPathLen = 1, !.DNSNames = <<>>]

\* sign, lines 96-99: the template once the engine holds a CA certificate.
IssuedTemplate(t) ==
  IF t.IsCA THEN [t EXCEPT !.MaxPathLen = 1, !.DNSNames = <<>>] ELSE t

\* x509.CreateCertificate, on success: the DER bytes carry the template's
\* fields, the issuer the parent names and the key that signed.
CreateCertificate(t, parent, key) ==
  <<t.SerialNumber, t.IsCA, t.MaxPathLen, t.DNSNames, t.IPAddresses, parent, key,
    t.Subject>>

\* x509.ParseCertificate, on success.
ParseCertificate(der) ==
  [kind |-> "cert", SerialNumber |-> der[1], IsCA |-> der[2], MaxPathLen |-> der[3],
   DNSNames |-> der[4], IPAddresses |-> der[5], issuer |-> der[6], signedBy |-> der[7],
   Subject |-> der[8]]

\* ------------------------------------------------------------- construction
\* NewSigner: the error, and the engine's four fields.
NoEngine == [ca |-> NoCert, priv |-> "none", sigAlgo |-> "none", policy |-> NilPolicy]
\* NewSigner without the validity check of lines 39-41.
NewSignerUnchecked(key, cert, algo, pol) ==
  LET p == IF pol.nil THEN SubstitutePolicy ELSE pol
  IN  [err |-> NoErr, s |-> [ca |-> cert, priv |-> key, sigAlgo |-> algo, policy |-> p]]

NewSigner(key, cert, algo, pol) ==
  LET p == IF pol.nil THEN SubstitutePolicy ELSE pol
  IN  IF ~Valid(p)
      THEN [err |-> InvalidPolicy, s |-> NoEngine]
      ELSE [err |-> NoErr,
            s |-> [ca |-> cert, priv |-> key, sigAlgo |-> algo, policy |-> p]]

\* The arguments NewSigner is called with: every pairing of an absent or
\* given CA certificate with an absent, a valid or an invalid policy, under
\* two keys.
ConstructorArgs ==
  { [key |-> "rsaKey", algo |-> "SHA256WithRSA", cert |-> NoCert, policy |-> NilPolicy],
    [key |-> "ecKey", algo |-> "ECDSAWithSHA256", cert |-> NoCert, policy |-> PolA],
    [key |-> "ecKey", algo |-> "ECDSAWithSHA256", cert |-> SuppliedCert, policy |-> NilPolicy],
    [key |-> "rsaKey", algo |-> "SHA256WithRSA", cert |-> SuppliedCert, policy |-> PolA],
    [key |-> "rsaKey", algo |-> "SHA256WithRSA", cert |-> NoCert, policy |-> PolNoDefault],
    [key |-> "ecKey", algo |-> "ECDSAWithSHA256", cert |-> SuppliedCert,
     policy |-> PolNoDefault] }

\* -------------------------------------------------------------------- state
VARIABLES
  ctor,        \* the arguments NewSigner was called with, and what it returned
  ca,          \* s.ca
  priv,        \* s.priv
  sigAlgo,     \* s.sigAlgo
  policy,      \* s.policy
  pc,          \* where each goroutine stands in its Sign call
  loc,         \* each goroutine's locals of its current or last Sign call
  nCalls,      \* Sign calls started
  roots,       \* history: the calls whose root bootstrap completed
  args,        \* the arguments of a direct call of an exported function
  ret          \* what that call returned

vars == <<ctor, ca, priv, sigAlgo, policy, pc, loc, nCalls, roots, args, ret>>

\* Locals of a call that has not started.  caBefore, hadCA and guard are
\* history: s.ca when the call began, whether line 87 read a non-nil s.ca, and
\* whether a root certificate existed at that read ("unread" before it).  got
\* and gotErr are the results of the goroutine's last Certificate call.
NoCall ==
  [id |-> 0, name |-> "", hint |-> "", req |-> NoBytes, profile |-> NilProfile,
   serialSeq |-> "", template |-> NoTemplate, initRoot |-> FALSE, der |-> <<>>,
   cert |-> NoBytes, err |-> Pending, caBefore |-> NoCert, hadCA |-> FALSE,
   guard |-> "unread", got |-> NoCert, gotErr |-> Pending]

\* No direct call of PopulateSubjectFromCSR or OverrideHosts is made.
NoArgs == [fn |-> "none"]
NoRet == [fn |-> "none"]

Init ==
  /\ \E a \in ConstructorArgs :
       LET r == NewSigner(a.key, a.cert, a.algo, a.policy)
       IN  /\ ctor = [priv |-> a.key, cert |-> a.cert, sigAlgo |-> a.algo,
                      policy |-> a.policy, err |-> r.err, s |-> r.s]
           /\ ca = r.s.ca
           /\ priv = r.s.priv
           /\ sigAlgo = r.s.sigAlgo
           /\ policy = r.s.policy
  /\ pc = [c \in Callers |-> "idle"]
  /\ loc = [c \in Callers |-> NoCall]
  /\ nCalls = 0
  /\ roots = {}
  /\ args = NoArgs
  /\ ret = NoRet

Built == ctor.err = NoErr

\* A root certificate exists: one was given to NewSigner, or a root bootstrap
\* has completed.
RootIssued == ctor.cert /= NoCert \/ roots /= {}

\* The locals a call no longer reads are dead; they are kept blank.
Dead(l) ==
  [l EXCEPT !.name = "", !.hint = "", !.profile = NilProfile, !.serialSeq = "",
            !.template = NoTemplate, !.der = <<>>]

\* A call returns: err and cert are its results.
Return(c, err, cert) ==
  /\ pc' = [pc EXCEPT ![c] = "idle"]
  /\ loc' = [loc EXCEPT ![c] = [Dead(@) EXCEPT !.err = err, !.cert = cert]]

\* A call dies of a nil dereference.
Panic(c) ==
  /\ pc' = [pc EXCEPT ![c] = "panic"]
  /\ loc' = [loc EXCEPT ![c] = [Dead(@) EXCEPT !.err = Panicked]]

engine == <<ctor, priv, sigAlgo>>
direct == <<args, ret>>

\* Sign, line 205: a goroutine enters Sign and looks the requested profile up
\* in the policy.  The request's bytes, hosts and subject are drawn where Sign
\* first reads them, at lines 215-231; a call that dies before has them drawn
\* as it dies.
\* Lines 210-213 without the test of profile.UseSerialSeq.
SerialSeqAlways(profile, hint) == hint

\* Sign, lines 210-213: the serial sequence the call goes on with.
SerialSeqFor(profile, hint) == IF profile.UseSerialSeq THEN hint ELSE ""

SignCall(c, max) ==
  /\ Built
  /\ pc[c] = "idle"
  /\ nCalls < max
  /\ nCalls' = nCalls + 1
  /\ \E name \in ProfileNames, hint \in Hints :
       LET call == [NoCall EXCEPT !.id = nCalls + 1, !.name = name, !.hint = hint,
                                  !.caBefore = ca]
       IN  IF policy.nil
           THEN /\ pc' = [pc EXCEPT ![c] = "panic"]
                /\ \E req \in RequestBytes :
                     loc' = [loc EXCEPT ![c] =
                               [Dead(call) EXCEPT !.req = req, !.err = Panicked]]
           ELSE /\ pc' = [pc EXCEPT ![c] = "resolve"]
                /\ loc' = [loc EXCEPT ![c] = [call EXCEPT !.profile = policy.Profiles[name]]]
  /\ UNCHANGED <<engine, direct, ca, policy, roots>>

Sign(c) == SignCall(c, MaxCalls)

\* Sign, lines 206-231: fall back to the default profile, settle the serial
\* sequence, decode the PEM block, parse the CSR into a template, override its
\* hosts.
SignResolve(c) ==
  /\ pc[c] = "resolve"
  /\ \E req \in RequestBytes :
       LET l == [loc[c] EXCEPT !.req = req]
           block == PemDecode(req)
           Fail(err) ==
             /\ pc' = [pc EXCEPT ![c] = IF err = Panicked THEN "panic" ELSE "idle"]
             /\ loc' = [loc EXCEPT ![c] = [Dead(l) EXCEPT !.err = err]]
       IN  IF l.profile = NilProfile /\ policy.nil
           THEN Fail(Panicked)
           ELSE LET profile == IF l.profile = NilProfile THEN policy.Default ELSE l.profile
                    serialSeq == SerialSeqFor(profile, l.hint)
                IN  IF profile = NilProfile
                    THEN Fail(Panicked)
                    ELSE IF block.nil
                    THEN Fail(DecodeFailed)
                    ELSE IF block.Type /= "CERTIFICATE REQUEST"
                    THEN Fail(BadRequest)
                    ELSE IF block.Bytes = Junk
                    THEN Fail(CSRParseErr)
                    ELSE \E f \in { o \in OptionalFields : o.SerialSeq = l.hint } :
                           LET hosts == f.Hosts
                               subject == f.Subject
                               template ==
                                 OverrideHosts(ParseCertificateRequest(block.Bytes), hosts)
                           IN  /\ pc' = [pc EXCEPT ![c] = "fill"]
                               /\ loc' = [loc EXCEPT ![c] =
                                    [l EXCEPT
                                       !.name = "",
                                       !.hint = "",
                                       !.profile = profile,
                                       !.serialSeq = serialSeq,
                                       !.template =
                                          [template EXCEPT !.Subject =
                                             PopulateSubjectFromCSR(subject, @)]]]
  /\ UNCHANGED <<engine, direct, ca, policy, nCalls, roots>>

\* sign, lines 80-85: the template filler, given the policy's default profile.
signFill(c) ==
  /\ pc[c] = "fill"
  /\ LET l == loc[c]
     IN  IF policy.nil
         THEN Panic(c)
         ELSE \/ Return(c, FillErr, NoBytes)
              \/ \E pl \in ReqPathLens \cup {l.template.MaxPathLen} :
                   /\ loc' = [loc EXCEPT ![c].template =
                                           FillTemplate(@, policy.Default, l.profile,
                                                        l.serialSeq, l.id, pl),
                                         ![c].profile = NilProfile,
                                         ![c].serialSeq = ""]
                   /\ pc' = [pc EXCEPT ![c] = "check"]
  /\ UNCHANGED <<engine, direct, ca, policy, nCalls, roots>>

\* sign, lines 86-91 and 96-99: the hierarchy guard reads s.ca.
signCheck(c) ==
  /\ pc[c] = "check"
  /\ LET l == loc[c]
         seen == [l EXCEPT !.hadCA = (ca /= NoCert), !.guard = IF RootIssued THEN "rooted" ELSE "noroot"]
     IN  IF ca = NoCert
         THEN IF ~l.template.IsCA
              THEN /\ pc' = [pc EXCEPT ![c] = "idle"]
                   /\ loc' = [loc EXCEPT ![c] = [Dead(seen) EXCEPT !.err = InvalidRequest]]
              ELSE /\ pc' = [pc EXCEPT ![c] = "root"]
                   /\ loc' = [loc EXCEPT ![c] = seen]
         ELSE /\ pc' = [pc EXCEPT ![c] = "create"]
              /\ loc' = [loc EXCEPT ![c] = [seen EXCEPT !.template = IssuedTemplate(@)]]
  /\ UNCHANGED <<engine, direct, ca, policy, nCalls, roots>>

\* sign, lines 92-95: root bootstrap; s.ca is pointed at the template.
signInitRoot(c) ==
  /\ pc[c] = "root"
  /\ ca' = TemplatePtr(loc[c].id)
  /\ loc' = [loc EXCEPT ![c].template = RootTemplate(@), ![c].initRoot = TRUE]
  /\ pc' = [pc EXCEPT ![c] = "create"]
  /\ UNCHANGED <<engine, direct, policy, nCalls, roots>>

\* sign, lines 101-104 and, when this is no root bootstrap, lines 112-114:
\* the signing primitive, with s.ca as it is now for the parent.
signCreate(c) ==
  /\ pc[c] = "create"
  /\ LET l == loc[c]
         der == CreateCertificate(l.template, ca, priv)
     IN  IF ca = NoCert
         THEN Panic(c)
         ELSE \/ Return(c, UnknownErr, NoBytes)
              \/ IF l.initRoot
                 THEN /\ pc' = [pc EXCEPT ![c] = "parse"]
                      /\ loc' = [loc EXCEPT ![c].der = der]
                 ELSE Return(c, NoErr, PemEncode("CERTIFICATE", der))
  /\ UNCHANGED <<engine, direct, ca, policy, nCalls, roots>>

\* Lines 105-114 with the parsed certificate stored only when the parse
\* succeeded: a failed parse leaves s.ca pointing at the template.
signParseKeepsCA(c) ==
  /\ pc[c] = "parse"
  /\ LET l == loc[c]
     IN  \/ /\ UNCHANGED <<ca, roots>>
            /\ Return(c, ParseFailed, NoBytes)
         \/ /\ ca' = ParseCertificate(l.der)
            /\ Return(c, NoErr, PemEncode("CERTIFICATE", l.der))
            /\ roots' = roots \cup {l.id}
  /\ UNCHANGED <<engine, direct, policy, nCalls>>

\* sign, lines 105-114 of a root bootstrap: the fresh bytes are parsed back
\* into s.ca.
signParse(c) ==
  /\ pc[c] = "parse"
  /\ LET l == loc[c]
     IN  \/ /\ ca' = NoCert
            /\ Return(c, ParseFailed, NoBytes)
            /\ UNCHANGED roots
         \/ /\ ca' = ParseCertificate(l.der)
            /\ Return(c, NoErr, PemEncode("CERTIFICATE", l.der))
            /\ roots' = roots \cup {l.id}
  /\ UNCHANGED <<engine, direct, policy, nCalls>>

\* SetPolicy
SetPolicy(p) ==
  /\ Built
  /\ policy' = p
  /\ UNCHANGED <<engine, direct, ca, pc, loc, nCalls, roots>>

Next ==
  \/ \E c \in Callers : Sign(c)
  \/ \E c \in Callers : SignResolve(c)
  \/ \E c \in Callers : signFill(c)
  \/ \E c \in Callers : signCheck(c)
  \/ \E c \in Callers : signInitRoot(c)
  \/ \E c \in Callers : signCreate(c)
  \/ \E c \in Callers : signParse(c)
  \/ \E p \in PolicyArgs : SetPolicy(p)

Spec == Init /\ [][Next]_vars

\* The engine used by one caller at a time: a Sign call starts only when no
\* other call is in flight.  Every behaviour of SerialSpec is one of Spec.
NoneInFlight == \A c \in Callers : pc[c] \in {"idle", "panic"}
SerialSign(c) == NoneInFlight /\ Sign(c)

SerialNext ==
  \/ \E c \in Callers : SerialSign(c)
  \/ \E c \in Callers : SignResolve(c)
  \/ \E c \in Callers : signFill(c)
  \/ \E c \in Callers : signCheck(c)
  \/ \E c \in Callers : signInitRoot(c)
  \/ \E c \in Callers : signCreate(c)
  \/ \E c \in Callers : signParse(c)
  \/ \E p \in PolicyArgs : SetPolicy(p)

SerialSpec == Init /\ [][SerialNext]_vars

\* Certificate: the goroutine gets a copy of what s.ca points at, or dies of
\* the nil dereference of line 243.  The label and profile arguments are not
\* read.
Certificate(c) ==
  /\ Built
  /\ pc[c] = "idle"
  /\ IF ca = NoCert
     THEN /\ pc' = [pc EXCEPT ![c] = "panic"]
          /\ loc' = [loc EXCEPT ![c] = [NoCall EXCEPT !.gotErr = Panicked]]
     ELSE /\ pc' = pc
          /\ loc' = [loc EXCEPT ![c] = [NoCall EXCEPT !.got = ca, !.gotErr = NoErr]]
  /\ UNCHANGED <<engine, direct, ca, policy, nCalls, roots>>

\* The engine with its certificate read as well: the goroutines call Sign and
\* Certificate, and SetPolicy runs, in any order.
CertNext ==
  \/ Next
  \/ \E c \in Callers : Certificate(c)

CertSpec == Init /\ [][CertNext]_vars

\* An engine built with neither a CA certificate nor a policy, asked by the
\* two goroutines, in up to MaxCalls + 2 calls that may overlap, to sign
\* well-formed requests that name no profile and carry the optional fields;
\* the policy is not replaced.  Every behaviour of ResignSpec is one of the engine.
ResignInit == Init /\ ctor.cert = NoCert /\ ctor.policy = NilPolicy
PlainSign(c) == SignCall(c, MaxCalls + 2) /\ loc'[c].name = "" /\ loc'[c].hint /= ""
PlainResolve(c) == SignResolve(c) /\ pc'[c] = "fill"

ResignNext ==
  \/ \E c \in Callers : PlainSign(c)
  \/ \E c \in Callers : PlainResolve(c)
  \/ \E c \in Callers : signFill(c)
  \/ \E c \in Callers : signCheck(c)
  \/ \E c \in Callers : signInitRoot(c)
  \/ \E c \in Callers : signCreate(c)
  \/ \E c \in Callers : signParse(c)

ResignSpec == ResignInit /\ [][ResignNext]_vars

\* ------------------------------------------------ the exported functions
\* PopulateSubjectFromCSR and OverrideHosts are exported functions of the
\* package; they take no engine.  PureSpec calls each of them once, directly,
\* on arguments drawn from the sets below.

\* CSR identities and override identities: every field empty or not, the two
\* kinds with values of their own.
CsrNames ==
  { NameOf(cn, c, st, l, o, ou) :
      cn \in {"", "req-cn"}, c \in {<<>>, <<"US", "FR">>}, st \in {<<>>, <<"req-st">>},
      l \in {<<>>, <<"req-l">>}, o \in {<<>>, <<"req-org">>}, ou \in {<<>>, <<"req-ou">>} }
OverrideNames ==
  { NameOf(cn, c, st, l, o, ou) :
      cn \in {"", "policy-cn"}, c \in {<<>>, <<"DE">>}, st \in {<<>>, <<"policy-st">>},
      l \in {<<>>, <<"policy-l">>}, o \in {<<>>, <<"Policy">>},
      ou \in {<<>>, <<"policy-ou", "policy-ou2">>} }
Whitelists ==
  {NilWhitelist} \cup
  [nil : {FALSE}, CN : BOOLEAN, C : BOOLEAN, ST : BOOLEAN, L : BOOLEAN, O : BOOLEAN,
   OU : BOOLEAN]
SecondName == NameOf("second-cn", <<"second-c">>, <<>>, <<>>, <<"second-org">>, <<>>)
NameLists ==
  {<<>>} \cup { <<n>> : n \in OverrideNames }
         \cup { <<n, SecondName>> : n \in { m \in OverrideNames : m.Locality = <<>> } }
Subjects ==
  {NilSubject} \cup
  { [nil |-> FALSE, Whitelist |-> w, Names |-> ns] : w \in Whitelists, ns \in NameLists }

\* Host lists of up to three hosts, and templates with and without SAN lists
\* parsed from the CSR.
HostStrings == {"10.0.0.1", "::1", "api.example.com", "b.example.com"}
HostArgs ==
  {NilHosts} \cup
  { [nil |-> FALSE, list |-> l] :
      l \in {<<>>} \cup { <<a>> : a \in HostStrings }
                  \cup { <<a, b>> : a \in HostStrings, b \in HostStrings }
                  \cup { <<a, b, a>> : a \in HostStrings, b \in HostStrings } }
ParsedTemplates ==
  { [NoTemplate EXCEPT !.DNSNames = d, !.IPAddresses = i] :
      d \in {<<>>, <<"csr.example.com">>}, i \in {<<>>, <<ParseIP("::1")>>} }

PureInit ==
  /\ ctor = [priv |-> "none", cert |-> NoCert, sigAlgo |-> "none", policy |-> NilPolicy,
             err |-> Pending, s |-> NoEngine]
  /\ ca = NoCert
  /\ priv = "none"
  /\ sigAlgo = "none"
  /\ policy = NilPolicy
  /\ pc = [c \in Callers |-> "idle"]
  /\ loc = [c \in Callers |-> NoCall]
  /\ nCalls = 0
  /\ roots = {}
  /\ ret = NoRet
  /\ \/ \E s \in Subjects, req \in CsrNames :
          args = [fn |-> "PopulateSubjectFromCSR", s |-> s, req |-> req]
     \/ \E t \in ParsedTemplates, hosts \in HostArgs :
          args = [fn |-> "OverrideHosts", template |-> t, hosts |-> hosts]

\* A direct call of PopulateSubjectFromCSR.
CallPopulateSubjectFromCSR ==
  /\ args.fn = "PopulateSubjectFromCSR"
  /\ ret = NoRet
  /\ ret' = [fn |-> args.fn, name |-> PopulateSubjectFromCSR(args.s, args.req)]
  /\ UNCHANGED <<engine, ca, policy, pc, loc, nCalls, roots, args>>

\* A direct call of OverrideHosts; the template is changed in place.
CallOverrideHosts ==
  /\ args.fn = "OverrideHosts"
  /\ ret = NoRet
  /\ ret' = [fn |-> args.fn, template |-> OverrideHosts(args.template, args.hosts)]
  /\ UNCHANGED <<engine, ca, policy, pc, loc, nCalls, roots, args>>

PureNext == CallPopulateSubjectFromCSR \/ CallOverrideHosts

PureSpec == PureInit /\ [][PureNext]_vars

\* ------------------------------------------------------------------ claims
\* Goroutine c's call has returned / has returned an error.
Returned(c) == pc[c] = "idle" /\ loc[c].err /= Pending
Failed(c) == Returned(c) /\ loc[c].err /= NoErr
Succeeded(c) == Returned(c) /\ loc[c].err = NoErr

\* The DER bytes inside the certificate a call returned, and its fields.
DerOf(c) == PemDecode(loc[c].cert).Bytes
IssuerOf(c) == DerOf(c)[6]

\* C1: a Sign call that returns an error leaves caCertificate as it was when
\* the call began; a root bootstrap whose signing primitive fails leaves it
\* absent.
C1_FailedSignKeepsCA ==
  [][\A c \in Callers :
       (pc[c] /= "idle" /\ pc'[c] = "idle" /\ loc'[c].err /= NoErr)
         => ca' = loc[c].caBefore]_vars

\* C2: while no root certificate has been issued or supplied, a Sign call whose
\* template is not a CA fails with PolicyError/InvalidRequest, returns no
\* certificate and leaves caCertificate unset.
C2_BootstrapRejection ==
  /\ [](\A c \in Callers :
         (loc[c].guard = "noroot" /\ ~loc[c].req.Bytes.IsCA)
           => /\ pc[c] = "idle"
              /\ loc[c].err = InvalidRequest
              /\ loc[c].cert = NoBytes)
  /\ [][\A c \in Callers :
         (pc[c] = "check" /\ pc'[c] /= "check" /\ loc'[c].guard = "noroot"
            /\ ~loc[c].req.Bytes.IsCA)
           => ca' = NoCert]_vars

\* C3: a root bootstrap that gets through the signing primitive and the
\* re-parse signed its template with itself as issuer, with no DNS names and
\* the path length signer.MaxPathLen, and at its return caCertificate is the
\* certificate parsed from the returned bytes.
C3_RootBootstrap ==
  /\ [](\A c \in Callers :
         /\ (pc[c] = "create" /\ loc[c].initRoot)
              => /\ ca = TemplatePtr(loc[c].id)
                 /\ loc[c].template.DNSNames = <<>>
                 /\ loc[c].template.MaxPathLen = MaxPathLen
         /\ (Succeeded(c) /\ loc[c].initRoot)
              => /\ IssuerOf(c) = TemplatePtr(loc[c].id)
                 /\ DerOf(c)[4] = <<>>
                 /\ DerOf(c)[3] = MaxPathLen)
  /\ [][\A c \in Callers :
         (pc[c] = "parse" /\ pc'[c] = "idle" /\ loc'[c].err = NoErr)
           => ca' = ParseCertificate(PemDecode(loc'[c].cert).Bytes)]_vars

\* C4: when the hierarchy guard finds a CA certificate held and the template
\* is a CA, the template handed to the signing primitive, and the certificate
\* signed from it, have path length 1 and no DNS names, whatever the CSR, the
\* filler or the host list asked for, and the call does not change
\* caCertificate.
C4_IntermediateConstraint ==
  /\ [](\A c \in Callers :
         /\ (pc[c] = "create" /\ loc[c].hadCA /\ loc[c].template.IsCA)
              => /\ loc[c].template.MaxPathLen = 1
                 /\ loc[c].template.DNSNames = <<>>
         /\ (Succeeded(c) /\ loc[c].hadCA /\ DerOf(c)[2])
              => /\ DerOf(c)[3] = 1
                 /\ DerOf(c)[4] = <<>>)
  /\ [][\A c \in Callers :
         /\ (pc[c] = "check" /\ pc'[c] /= "check" /\ ca /= NoCert) => ca' = ca
         /\ (pc[c] = "create" /\ pc'[c] /= "create" /\ loc[c].hadCA) => ca' = ca]_vars

\* A CA request for another path length, with DNS names, stands before the
\* signing primitive on an engine that held a CA certificate.
C4_Witness ==
  \E c \in Callers :
    /\ pc[c] = "create"
    /\ loc[c].hadCA
    /\ loc[c].template.IsCA
    /\ loc[c].req.Bytes.MaxPathLen = 3
    /\ loc[c].req.Bytes.DNSNames /= <<>>

\* C5: Sign calls are serialized around sign: no two root bootstraps are in
\* flight together, and while one is between its check of caCertificate and
\* its final store no other call reads caCertificate.
Bootstrapping(c) == pc[c] = "root" \/ (pc[c] \in {"create", "parse"} /\ loc[c].initRoot)
ReadsCA(c) == pc[c] \in {"check", "create"} /\ pc'[c] /= pc[c]
C5_Serialized ==
  /\ [](\A c1, c2 \in Callers : c1 /= c2 => ~(Bootstrapping(c1) /\ Bootstrapping(c2)))
  /\ [][\A c1, c2 \in Callers : (c1 /= c2 /\ Bootstrapping(c1)) => ~ReadsCA(c2)]_vars

\* C6: every certificate issued names as issuer either its own template, in a
\* root bootstrap, or a certificate given to NewSigner or parsed at the end of
\* a root bootstrap; never the unsigned template of another call.
C6_IssuerIsRoot ==
  \A c \in Callers :
    Succeeded(c) =>
      \/ IssuerOf(c).kind \in {"supplied", "cert"}
      \/ loc[c].initRoot /\ IssuerOf(c) = TemplatePtr(loc[c].id)

\* C7: across a Sign call caCertificate either keeps its value or goes from
\* absent to the root parsed from the bytes the call returns; once present it
\* is never changed.
C7_SetOnce ==
  [][\A c \in Callers :
       (pc[c] /= "idle" /\ pc'[c] \in {"idle", "panic"})
         => \/ ca' = loc[c].caBefore
            \/ /\ loc[c].caBefore = NoCert
               /\ loc'[c].err = NoErr
               /\ loc[c].initRoot
               /\ ca' = ParseCertificate(PemDecode(loc'[c].cert).Bytes)]_vars

\* C8: the engine's policy satisfies the validity predicate in every state.
C8_PolicyAlwaysValid == Built => Valid(policy)

\* C9: NewSigner substitutes the default policy for an absent one, fails with
\* PolicyError/InvalidPolicy and yields no engine exactly when the policy is
\* not valid, and otherwise yields an engine holding the given key, CA
\* certificate, signature algorithm and policy.
C9_Construction ==
  LET given == ctor.policy
      used == IF given.nil
              THEN [nil |-> FALSE, Profiles |-> [n \in ProfileNames |-> NilProfile],
                    Default |-> DefaultConfig]
              ELSE given
  IN  IF ~Valid(used)
      THEN /\ ctor.err = InvalidPolicy
           /\ ctor.s = NoEngine
           /\ ~Built
      ELSE /\ ctor.err = NoErr
           /\ ctor.s.priv = ctor.priv
           /\ ctor.s.ca = ctor.cert
           /\ ctor.s.sigAlgo = ctor.sigAlgo
           /\ ctor.s.policy = used
           /\ priv = ctor.priv
           /\ sigAlgo = ctor.sigAlgo

\* An engine built without a policy, holding the key and certificate given.
C9_Witness ==
  /\ Built
  /\ ctor.policy.nil
  /\ ctor.cert = SuppliedCert
  /\ nCalls = 0
  /\ policy.Default = DefaultConfig
  /\ ca = SuppliedCert

\* C10: a request with no PEM block fails with CertificateError/DecodeFailed
\* and one whose block is not a "CERTIFICATE REQUEST" fails with
\* CertificateError/BadRequest, before the CSR parser, the filler, the guard
\* or the signing primitive run, and the call changes no engine state.
NoPem(c) == loc[c].id /= 0 /\ ~loc[c].req.armor
WrongType(c) ==
  loc[c].id /= 0 /\ loc[c].req.armor /\ loc[c].req.Type /= "CERTIFICATE REQUEST"
C10_DecodeFailures ==
  /\ [](\A c \in Callers :
         /\ NoPem(c) => pc[c] = "resolve" \/ (Returned(c) /\ loc[c].err = DecodeFailed)
         /\ WrongType(c) => pc[c] = "resolve" \/ (Returned(c) /\ loc[c].err = BadRequest))
  /\ [][\A c \in Callers :
         (pc'[c] /= pc[c] /\ (NoPem(c)' \/ WrongType(c)'))
           => UNCHANGED <<ca, policy, priv, sigAlgo>>]_vars

\* C11: the profile a Sign call resolves is the policy's entry for the
\* requested name when the mapping has one, and the policy's default profile
\* when the mapping has none or the name is empty; the lookup and the fallback
\* never end the call.
Present(p, n) == p.Profiles[n] /= NilProfile
Resolved(p, n) == IF n /= "" /\ Present(p, n) THEN p.Profiles[n] ELSE p.Default
C11_ProfileFallback ==
  [][\A c \in Callers :
       /\ (pc[c] = "idle" /\ pc'[c] /= "idle") => pc'[c] = "resolve"
       /\ (pc[c] = "resolve" /\ pc'[c] /= "resolve")
            => /\ pc'[c] /= "panic"
               /\ pc'[c] = "fill" => loc'[c].profile = Resolved(policy, loc[c].name)]_vars

\* What a direct call of PopulateSubjectFromCSR was given and gave back.
Reconciled == ret.fn = "PopulateSubjectFromCSR"
NoOverride == args.s.Names = <<>>

\* C12: PopulateSubjectFromCSR returns the CSR identity unchanged for an
\* absent Subject and for a Subject with no whitelist and no override
\* identities; for a Subject with a whitelist and no override identities each
\* of the six fields of the result is the CSR's value when its whitelist flag
\* is true and empty when the flag is false.
C12_SubjectWhitelist ==
  Reconciled =>
    LET s == args.s
        req == args.req
        out == ret.name
    IN  /\ s.nil => out = req
        /\ (~s.nil /\ s.Whitelist.nil /\ NoOverride) => out = req
        /\ (~s.nil /\ ~s.Whitelist.nil /\ NoOverride)
             => /\ out.CommonName = (IF s.Whitelist.CN THEN req.CommonName ELSE "")
                /\ out.Country = (IF s.Whitelist.C THEN req.Country ELSE <<>>)
                /\ out.Province = (IF s.Whitelist.ST THEN req.Province ELSE <<>>)
                /\ out.Locality = (IF s.Whitelist.L THEN req.Locality ELSE <<>>)
                /\ out.Organization = (IF s.Whitelist.O THEN req.Organization ELSE <<>>)
                /\ out.OrganizationalUnit =
                     (IF s.Whitelist.OU THEN req.OrganizationalUnit ELSE <<>>)

\* The whitelist {CN: false, O: true} with no override identities has turned
\* the CSR identity {CN: "req-cn", O: ["req-org"]} into {CN: "", O: ["req-org"]}.
C12_Witness ==
  /\ Reconciled
  /\ ~args.s.nil
  /\ ~args.s.Whitelist.nil
  /\ ~args.s.Whitelist.CN
  /\ args.s.Whitelist.O
  /\ NoOverride
  /\ args.req.CommonName = "req-cn"
  /\ args.req.Organization = <<"req-org">>
  /\ ret.name.CommonName = ""
  /\ ret.name.Organization = <<"req-org">>

\* C13: when the Subject has an override identity, each of the six fields of
\* the result is the first override identity's value when that is not empty
\* and otherwise the CSR's value after whitelisting; so a CSR field the
\* whitelist blanked does not come back, and a non-empty override value is
\* never replaced.
C13_OverridePrecedence ==
  (Reconciled /\ ~args.s.nil /\ ~NoOverride) =>
    LET s == args.s
        req == args.req
        out == ret.name
        first == s.Names[1]
        Kept(flag) == s.Whitelist.nil \/ flag
        Slice(over, flag, csr) == IF over /= <<>> THEN over ELSE IF Kept(flag) THEN csr ELSE <<>>
    IN  /\ out.CommonName =
             (IF first.CommonName /= "" THEN first.CommonName
              ELSE IF Kept(s.Whitelist.CN) THEN req.CommonName ELSE "")
        /\ out.Country = Slice(first.Country, s.Whitelist.C, req.Country)
        /\ out.Province = Slice(first.Province, s.Whitelist.ST, req.Province)
        /\ out.Locality = Slice(first.Locality, s.Whitelist.L, req.Locality)
        /\ out.Organization = Slice(first.Organization, s.Whitelist.O, req.Organization)
        /\ out.OrganizationalUnit =
             Slice(first.OrganizationalUnit, s.Whitelist.OU, req.OrganizationalUnit)
        /\ ~Kept(s.Whitelist.CN) => out.CommonName = first.CommonName
        /\ ~Kept(s.Whitelist.C) => out.Country = first.Country
        /\ ~Kept(s.Whitelist.O) => out.Organization = first.Organization
        /\ first.Organization /= <<>> => out.Organization = first.Organization
        /\ first.OrganizationalUnit /= <<>> => out.OrganizationalUnit = first.OrganizationalUnit

\* The override identity {CN: "", O: ["Policy"]} merged with the CSR identity
\* {CN: "req-cn", O: ["req-org"], C: [...]} under a whitelist that drops the
\* country: the CSR's common name, the override's organization, no country.
C13_Witness ==
  /\ Reconciled
  /\ ~args.s.nil
  /\ Len(args.s.Names) = 2
  /\ args.s.Names[1].CommonName = ""
  /\ args.s.Names[1].Organization = <<"Policy">>
  /\ args.s.Names[1].Country = <<>>
  /\ ~args.s.Whitelist.nil
  /\ args.s.Whitelist.CN
  /\ ~args.s.Whitelist.C
  /\ args.req.CommonName = "req-cn"
  /\ args.req.Organization = <<"req-org">>
  /\ args.req.Country /= <<>>
  /\ ret.name.CommonName = "req-cn"
  /\ ret.name.Organization = <<"Policy">>
  /\ ret.name.Country = <<>>

\* C14: for a host list that is not nil, OverrideHosts drops the template's
\* IP and DNS lists and puts every host, in input order, into the IP list when
\* it parses as an IP literal and into the DNS list otherwise; for a nil host
\* list the template keeps the lists parsed from the CSR.
Classified == ret.fn = "OverrideHosts"
IsLiteral(h) == ~ParseIP(h).nil
C14_HostClassification ==
  Classified =>
    LET t == args.template
        hosts == args.hosts
        out == ret.template
        ips == SelectSeq(hosts.list, IsLiteral)
        names == SelectSeq(hosts.list, LAMBDA h : ~IsLiteral(h))
    IN  IF hosts.nil
        THEN out = t
        ELSE /\ out.IPAddresses = [i \in 1..Len(ips) |-> ParseIP(ips[i])]
             /\ out.DNSNames = names
             /\ Len(out.IPAddresses) + Len(out.DNSNames) = Len(hosts.list)
             /\ out = [t EXCEPT !.IPAddresses = out.IPAddresses, !.DNSNames = out.DNSNames]

\* The hosts ["10.0.0.1", "api.example.com"] have replaced the SAN lists the
\* CSR carried.
C14_Witness ==
  /\ Classified
  /\ args.hosts = [nil |-> FALSE, list |-> <<"10.0.0.1", "api.example.com">>]
  /\ args.template.DNSNames /= <<>>
  /\ args.template.IPAddresses /= <<>>
  /\ ret.template.IPAddresses = <<ParseIP("10.0.0.1")>>
  /\ ret.template.DNSNames = <<"api.example.com">>

\* C15: two Sign calls of the same request, each begun while the engine held
\* a root certificate and with the policy not replaced, yield certificates
\* with different serial numbers and the same subject, IP and DNS lists, CA
\* flag, path length and issuer.
Bootstrapped(cert) == cert.kind \in {"supplied", "cert"}
C15_IdempotentResign ==
  \A c1, c2 \in Callers :
    ( /\ c1 /= c2
      /\ Succeeded(c1)
      /\ Succeeded(c2)
      /\ loc[c1].req = loc[c2].req
      /\ Bootstrapped(loc[c1].caBefore)
      /\ Bootstrapped(loc[c2].caBefore) )
      => /\ DerOf(c1)[1] /= DerOf(c2)[1]
         /\ \A k \in {2, 3, 4, 5, 8} : DerOf(c1)[k] = DerOf(c2)[k]
         /\ IssuerOf(c1) = IssuerOf(c2)

\* C16: when the hierarchy guard finds a CA certificate held and the template
\* is no CA, the guard leaves the template as it is: its DNS and IP lists,
\* subject and path length reach the signing primitive, and the certificate,
\* as OverrideHosts, PopulateSubjectFromCSR and the filler left them; the
\* certificate is issued under the engine's caCertificate, and the call does
\* not change caCertificate.
SanSubject(t) == <<t.DNSNames, t.IPAddresses, t.Subject>>
C16_LeafIssuance ==
  [][\A c \in Callers :
       /\ (pc[c] = "check" /\ pc'[c] /= "check" /\ ca /= NoCert /\ ~loc[c].template.IsCA)
            => /\ pc'[c] = "create"
               /\ loc'[c].template = loc[c].template
               /\ ca' = ca
       /\ (pc[c] = "create" /\ pc'[c] = "idle" /\ loc[c].hadCA /\ ~loc[c].template.IsCA
              /\ loc'[c].err = NoErr)
            => LET t == loc[c].template
                   der == PemDecode(loc'[c].cert).Bytes
               IN  /\ <<der[4], der[5], der[8]>> = SanSubject(t)
                   /\ der[3] = t.MaxPathLen
                   /\ der[6] = ca
                   /\ ca' = ca]_vars

\* A leaf certificate issued on an engine that held a CA certificate, with
\* the hosts and the subject of the request in it.
C16_Witness ==
  \E c \in Callers :
    /\ Succeeded(c)
    /\ loc[c].hadCA
    /\ ~DerOf(c)[2]
    /\ DerOf(c)[3] = 0
    /\ DerOf(c)[4] = <<"api.example.com">>
    /\ DerOf(c)[5] = <<ParseIP("10.0.0.1")>>
    /\ DerOf(c)[8].Organization = <<"Policy">>
    /\ DerOf(c)[8].CommonName = ""
    /\ IssuerOf(c) = ca

\* C17: the profile a Sign call resolved and the default profile its sign
\* step hands to the template filler come from one policy value, whenever
\* SetPolicy runs: when the filler is called under a valid policy, some policy
\* the engine was given has the profile among its entries or as its default
\* and has the default that was passed.
PoliciesGiven == {SubstitutePolicy} \cup (PolicyArgs \ {NilPolicy})
ProfilesOf(p) == {p.Default} \cup { p.Profiles[n] : n \in ProfileNames }
C17_OnePolicyPerSign ==
  [][\A c \in Callers :
       (pc[c] = "fill" /\ pc'[c] /= "fill" /\ Valid(policy))
         => \E p \in PoliciesGiven :
              /\ loc[c].profile \in ProfilesOf(p)
              /\ policy.Default = p.Default]_vars

\* C18: a root bootstrap whose re-parse fails returns
\* CertificateError/ParseFailed and no certificate bytes and leaves
\* caCertificate absent, and a Sign call whose guard finds caCertificate absent
\* is treated as a root bootstrap attempt: it goes on as a bootstrap or fails
\* with PolicyError/InvalidRequest.
C18_ParseFailure ==
  [][\A c \in Callers :
       /\ (pc[c] = "parse" /\ pc'[c] /= "parse" /\ loc'[c].err /= NoErr)
            => /\ pc'[c] = "idle"
               /\ loc'[c].err = ParseFailed
               /\ loc'[c].cert = NoBytes
               /\ ca' = NoCert
       /\ (pc[c] = "check" /\ pc'[c] /= "check" /\ ca = NoCert)
            => \/ pc'[c] = "root" /\ loc[c].template.IsCA
               \/ /\ pc'[c] = "idle"
                  /\ loc'[c].err = InvalidRequest
                  /\ ~loc[c].template.IsCA]_vars

\* One call's bootstrap has failed at the re-parse, caCertificate is absent,
\* and a call begun on the absent certificate has been taken for a bootstrap.
C18_Witness ==
  \E c1, c2 \in Callers :
    /\ Returned(c1)
    /\ loc[c1].err = ParseFailed
    /\ loc[c1].initRoot
    /\ loc[c2].id > loc[c1].id
    /\ loc[c2].caBefore = NoCert
    /\ pc[c2] = "root"
    /\ ca = NoCert

\* C19: the serial sequence a call enters sign with, which sign hands to the
\* template filler, is the request's hint when the resolved profile, after the
\* default fallback, honors hints and is empty otherwise; a hint never stands
\* before the filler under a profile that does not honor it.
C19_SerialSeqHint ==
  /\ [](\A c \in Callers :
         (pc[c] = "fill" /\ ~loc[c].profile.UseSerialSeq) => loc[c].serialSeq = "")
  /\ [][\A c \in Callers :
         /\ (pc[c] = "resolve" /\ pc'[c] = "fill")
              => /\ loc'[c].profile.UseSerialSeq => loc'[c].serialSeq = loc[c].hint
                 /\ ~loc'[c].profile.UseSerialSeq => loc'[c].serialSeq = ""]_vars

\* A request with a hint stands before the filler under a profile that does
\* not honor hints, reached by the default fallback, with no serial sequence;
\* another stands there under a profile that honors hints, with its hint.
C19_Witness ==
  \E c1, c2 \in Callers :
    /\ pc[c1] = "fill"
    /\ loc[c1].profile = ProfD
    /\ loc[c1].serialSeq = ""
    /\ loc[c1].template.IPAddresses /= <<>>
    /\ pc[c2] = "fill"
    /\ loc[c2].profile = ProfA
    /\ loc[c2].serialSeq = "seq7"

\* C20: in every state Certificate returns a copy of the engine's stored
\* caCertificate and a nil error and changes nothing of the engine; called on
\* an engine with no CA certificate it does not fault, and called during a
\* root bootstrap it does not hand out the unsigned template of the call in
\* flight.
C20_CertificateCopy ==
  /\ [](\A c \in Callers :
         loc[c].gotErr /= Pending
           => /\ loc[c].gotErr = NoErr
              /\ pc[c] /= "panic"
              /\ loc[c].got.kind \in {"supplied", "cert"})
  /\ [][\A c \in Callers :
         (loc'[c].gotErr /= Pending /\ loc'[c] /= loc[c])
           => /\ loc'[c].gotErr = NoErr => loc'[c].got = ca
              /\ UNCHANGED <<ca, priv, sigAlgo, policy>>]_vars

====
